---- MODULE Spec2Model ----
(***************************************************************************)
(* Minesweeper (forestlaw77/minesweeper): the GameBoard component.         *)
(*                                                                         *)
(* The React state of GameBoard (board, flagCount, revealedCount,          *)
(* isGameStart, isGameOver, isGameWon) is the committed snapshot.  Every   *)
(* render of GameBoard creates new closures: handleClick, revealedCell and *)
(* flagToggleSet of a render read the board and the revealedCount of that  *)
(* render, and `let clickCount = 0` is a fresh variable per render.  The   *)
(* DOM handlers are always those of the latest render; only a setTimeout   *)
(* callback can run code of an earlier render.                             *)
(*                                                                         *)
(* A board is an array of row arrays.  `[...board]` copies the outer array *)
(* only, and every handler writes into the shared rows, so all snapshots   *)
(* made since one initializeBoard() are the same cells; initializeBoard()  *)
(* makes new rows.  heap maps a board identity to its cells; `board` and   *)
(* the closures of pending timers hold identities.                         *)
(***************************************************************************)
EXTENDS Integers, Sequences, FiniteSets, TLC

VARIABLES
    GRID_SIZE,      \* constants.ts GRID_SIZE: [row, col]
    NUM_MINES,      \* constants.ts NUM_MINES
    heap,           \* board identity -> cells (or NoBoard)
    board,          \* useState board: identity of the displayed board
    flagCount,      \* useState flagCount
    revealedCount,  \* useState revealedCount
    isGameStart,    \* useState isGameStart
    isGameOver,     \* useState isGameOver
    isGameWon,      \* useState isGameWon
    clickCount,     \* `let clickCount` of the latest render
    timers,         \* pending setTimeout callbacks, oldest first
    genBoard,       \* initializeBoard: newBoard while it is being built
    minesPlaced,    \* setMines: minesPlaced
    pc              \* "game": event loop; "setMines", "setBoard": board generation

vars == <<GRID_SIZE, NUM_MINES, heap, board, flagCount, revealedCount,
          isGameStart, isGameOver, isGameWon, clickCount, timers,
          genBoard, minesPlaced, pc>>

gameVars == <<heap, board, flagCount, revealedCount, isGameStart, isGameOver,
              isGameWon, clickCount, timers>>

genVars == <<genBoard, minesPlaced>>

-----------------------------------------------------------------------------
(* Bounds of the model *)

\* grid of the game sessions that are explored (GRID_SIZE is 8 x 8 in the source)
MaxRow == 2
MaxCol == 5
MaxCells == 6
\* mines of the game sessions that are explored (NUM_MINES is 10 in the source)
MaxMines == 1
\* pending setTimeout callbacks
MaxTimers == 2
\* value up to which one render's clickCount is followed
MaxClicks == 2
\* boards alive at one time: the displayed one and those of pending callbacks
MaxBoards == 2
\* grids of at most this many cells are explored under every interleaving of
\* the events; on larger grids an event other than the second press of a
\* double press arrives only when no callback is pending
RaceCells == 2
\* largest grid of the board generation runs
GenMaxRow == 3
GenMaxCol == 3

NoBoard == <<>>

BoardIds == 1..MaxBoards

\* { row, col } of surroundingCells and of the handlers' arguments
Pos(r, c) == [row |-> r, col |-> c]

Cells == {Pos(r, c) : r \in 0..(GRID_SIZE.row - 1), c \in 0..(GRID_SIZE.col - 1)}

InBounds(r, c) == r >= 0 /\ r < GRID_SIZE.row /\ c >= 0 /\ c < GRID_SIZE.col

\* the (i, j) pairs in the order of the two nested loops, i outer, j inner
Offsets == << <<-1, -1>>, <<-1, 0>>, <<-1, 1>>,
              << 0, -1>>, << 0, 0>>, << 0, 1>>,
              << 1, -1>>, << 1, 0>>, << 1, 1>> >>

RECURSIVE PushInBounds(_, _, _)
PushInBounds(row, col, k) ==
    IF k > Len(Offsets) THEN <<>>
    ELSE LET newRow == row + Offsets[k][1]
             newCol == col + Offsets[k][2]
         IN  IF InBounds(newRow, newCol)
             THEN <<Pos(newRow, newCol)>> \o PushInBounds(row, col, k + 1)
             ELSE PushInBounds(row, col, k + 1)

surroundingCells(row, col) == PushInBounds(row, col, 1)

\* adjacentMines with the inner loop started at j = 0
adjacentMines_SkipsLeftColumn(row, col, b) ==
    Cardinality({k \in DOMAIN Offsets :
        LET newRow == row + Offsets[k][1]
            newCol == col + Offsets[k][2]
        IN  Offsets[k][2] >= 0 /\ InBounds(newRow, newCol) /\ b[Pos(newRow, newCol)].isMine})

adjacentMines(row, col, b) ==
    Cardinality({k \in DOMAIN Offsets :
        LET newRow == row + Offsets[k][1]
            newCol == col + Offsets[k][2]
        IN  InBounds(newRow, newCol) /\ b[Pos(newRow, newCol)].isMine})

initializeCell ==
    [isMine |-> FALSE, isRevealed |-> FALSE, isFlagged |-> FALSE,
     adjacentMines |-> 0, surroundingCells |-> <<>>]

\* new Array(GRID_SIZE.row) ... map(() => initializeCell())
EmptyBoard == [p \in Cells |-> initializeCell]

\* the map() of initializeBoard after setMines: adjacentMines of the cells
\* that are not mines, surroundingCells of every cell
FillBoard(b) ==
    [p \in DOMAIN b |->
        [b[p] EXCEPT
            !.adjacentMines = IF ~b[p].isMine THEN adjacentMines(p.row, p.col, b) ELSE @,
            !.surroundingCells = surroundingCells(p.row, p.col)]]

\* setMines run to completion: the while loop ends with numMines distinct
\* cells marked, and Math.random() can pick any of them
setMines(numMines, b) ==
    {[p \in DOMAIN b |-> [b[p] EXCEPT !.isMine = (p \in ms)]] :
        ms \in {s \in SUBSET (DOMAIN b) : Cardinality(s) = numMines}}

\* the boards initializeBoard can hand to setBoard
initializeBoard == {FillBoard(b) : b \in setMines(NUM_MINES, EmptyBoard)}

-----------------------------------------------------------------------------
(* The handlers, as functions of the closure they run in *)

\* recursiveSurroundCells without the recursive call of line 170
recursiveSurroundCells_NoRecursion(acc, surrounding) ==
    LET hit == {k \in DOMAIN surrounding :
                   /\ ~acc.board[surrounding[k]].isFlagged
                   /\ ~acc.board[surrounding[k]].isMine
                   /\ ~acc.board[surrounding[k]].isRevealed}
        cells == {surrounding[k] : k \in hit}
    IN  [board |-> [q \in DOMAIN acc.board |->
                       IF q \in cells THEN [acc.board[q] EXCEPT !.isRevealed = TRUE]
                       ELSE acc.board[q]],
         count |-> acc.count + Cardinality(cells)]

\* recursiveSurroundCells: acc is [board, count], count the number of
\* setRevealedCount(prev => prev + 1) calls made so far
RECURSIVE recursiveSurroundCells(_, _)
recursiveSurroundCells(acc, surrounding) ==
    IF surrounding = <<>> THEN acc
    ELSE LET cell == Head(surrounding)
             b == acc.board
         IN  IF ~b[cell].isFlagged /\ ~b[cell].isMine /\ ~b[cell].isRevealed
             THEN LET acc1 == [board |-> [b EXCEPT ![cell].isRevealed = TRUE],
                               count |-> acc.count + 1]
                      acc2 == IF b[cell].adjacentMines = 0
                              THEN recursiveSurroundCells(acc1, b[cell].surroundingCells)
                              ELSE acc1
                  IN  recursiveSurroundCells(acc2, Tail(surrounding))
             ELSE recursiveSurroundCells(acc, Tail(surrounding))

\* the loss branch without line 220
RevealAll_Nothing(b) == b

\* newBoard.map(row => row.map(cell => (cell.isRevealed = true)))
RevealAll(b) == [q \in DOMAIN b |-> [b[q] EXCEPT !.isRevealed = TRUE]]

\* the cells the win branch of revealedCell flags
ForceFlagged(b) == {p \in DOMAIN b : ~b[p].isRevealed /\ ~b[p].isFlagged}

\* the map() of the win branch: cell.isFlagged = true for those cells
FlagRemaining(b) ==
    [q \in DOMAIN b |->
        IF q \in ForceFlagged(b) THEN [b[q] EXCEPT !.isFlagged = TRUE] ELSE b[q]]

\* revealedCell(row, col) in a closure whose board has the cells b and whose
\* revealedCount is rc.  mutated: the early return was not taken (setBoard is
\* called); revealed, flagged: the number of prev => prev + 1 updates queued;
\* over, won: setIsGameOver(true), setIsGameWon(true) were called
revealedCell(b, rc, row, col) ==
    LET p == Pos(row, col)
        newBoard == [b EXCEPT ![p].isRevealed = TRUE]
    IN  IF b[p].isRevealed \/ b[p].isFlagged
        THEN [mutated |-> FALSE, board |-> b, revealed |-> 0, flagged |-> 0,
              over |-> FALSE, won |-> FALSE]
        ELSE IF b[p].isMine
        THEN [mutated |-> TRUE,
              board |-> RevealAll(newBoard),
              revealed |-> 1, flagged |-> 0, over |-> TRUE, won |-> FALSE]
        ELSE IF rc = GRID_SIZE.row * GRID_SIZE.col - NUM_MINES - 1
        THEN [mutated |-> TRUE,
              board |-> FlagRemaining(newBoard),
              revealed |-> 1, flagged |-> Cardinality(ForceFlagged(newBoard)),
              over |-> FALSE, won |-> TRUE]
        ELSE IF b[p].adjacentMines = 0
        THEN LET acc == recursiveSurroundCells([board |-> newBoard, count |-> 0],
                                               b[p].surroundingCells)
             IN  [mutated |-> TRUE, board |-> acc.board, revealed |-> 1 + acc.count,
                  flagged |-> 0, over |-> FALSE, won |-> FALSE]
        ELSE [mutated |-> TRUE, board |-> newBoard, revealed |-> 1, flagged |-> 0,
              over |-> FALSE, won |-> FALSE]

\* flagToggleSet whose two branches both set the flag (lines 266-272)
flagToggleSet_AlwaysFlags(b, rc, row, col) ==
    LET p == Pos(row, col)
    IN  IF ~b[p].isRevealed
        THEN [mutated |-> TRUE,
              board |-> [b EXCEPT ![p].isFlagged = TRUE],
              flagged |-> 1,
              won |-> (rc = GRID_SIZE.row * GRID_SIZE.col - NUM_MINES)]
        ELSE [mutated |-> FALSE, board |-> b, flagged |-> 0, won |-> FALSE]

\* flagToggleSet without the test of line 263
flagToggleSet_TogglesRevealed(b, rc, row, col) ==
    LET p == Pos(row, col)
    IN  [mutated |-> TRUE,
         board |-> [b EXCEPT ![p].isFlagged = ~b[p].isFlagged],
         flagged |-> IF b[p].isFlagged THEN -1 ELSE 1,
         won |-> (rc = GRID_SIZE.row * GRID_SIZE.col - NUM_MINES)]

\* flagToggleSet(row, col) in a closure whose board has the cells b and whose
\* revealedCount is rc
flagToggleSet(b, rc, row, col) ==
    LET p == Pos(row, col)
    IN  IF ~b[p].isRevealed
        THEN [mutated |-> TRUE,
              board |-> [b EXCEPT ![p].isFlagged = ~b[p].isFlagged],
              flagged |-> IF b[p].isFlagged THEN -1 ELSE 1,
              won |-> (rc = GRID_SIZE.row * GRID_SIZE.col - NUM_MINES)]
        ELSE [mutated |-> FALSE, board |-> b, flagged |-> 0, won |-> FALSE]

-----------------------------------------------------------------------------
(* Renders, timers and the heap *)

\* a new render: the pending callback of the render that ends keeps that
\* render's clickCount, which no handler can reach any more
Freeze(ts, cc) ==
    [i \in DOMAIN ts |->
        IF ts[i].live THEN [ts[i] EXCEPT !.live = FALSE, !.clickCount = cc]
        ELSE ts[i]]

\* boards no closure and no state refers to are garbage
Collect(h, displayed, ts) ==
    [i \in DOMAIN h |->
        IF i = displayed \/ \E k \in DOMAIN ts : ts[k].board = i THEN h[i] ELSE NoBoard]

Racing == GRID_SIZE.row * GRID_SIZE.col <= RaceCells

Idle == Racing \/ timers = <<>>

\* some identity is free for the rows of a new board
CanAllocate(ts) == \E i \in BoardIds : \A k \in DOMAIN ts : ts[k].board # i

\* the identity given to the rows a new initializeBoard() allocates
FreshId(ts) ==
    CHOOSE i \in BoardIds :
        /\ \A k \in DOMAIN ts : ts[k].board # i
        /\ \A j \in BoardIds : (\A k \in DOMAIN ts : ts[k].board # j) => i <= j

\* the cells of the displayed board
Displayed == heap[board]

\* flagToggleSet called by a handler of the latest render, whose clickCount is cc
ToggleFlag(row, col, cc) ==
    LET o == flagToggleSet(Displayed, revealedCount, row, col)
    IN  IF o.mutated
        THEN /\ heap' = [heap EXCEPT ![board] = o.board]
             /\ flagCount' = flagCount + o.flagged
             /\ isGameWon' = (isGameWon \/ o.won)
             /\ isGameStart' = TRUE
             /\ timers' = Freeze(timers, cc)
             /\ clickCount' = 0
             /\ UNCHANGED <<board, revealedCount, isGameOver>>
        ELSE /\ clickCount' = cc
             /\ UNCHANGED <<heap, board, flagCount, revealedCount, isGameStart,
                            isGameOver, isGameWon, timers>>

\* onClick of a cell: handleClick(row, col) of the latest render
HandleClick(row, col) ==
    /\ pc = "game"
    /\ clickCount < MaxClicks
    /\ IF clickCount + 1 < 2
       THEN /\ Len(timers) < (IF Racing THEN MaxTimers ELSE 1)
            /\ timers' = Append(timers, [row |-> row, col |-> col, board |-> board,
                                         revealedCount |-> revealedCount,
                                         clickCount |-> 0, live |-> TRUE])
            /\ clickCount' = clickCount + 1
            /\ UNCHANGED <<heap, board, flagCount, revealedCount, isGameStart,
                           isGameOver, isGameWon>>
       ELSE ToggleFlag(row, col, clickCount + 1)
    /\ UNCHANGED <<GRID_SIZE, NUM_MINES, genVars, pc>>

\* the clickCount the callback t reads
ClickCountOf(t) == IF t.live THEN clickCount ELSE t.clickCount

\* the setTimeout callback of handleClick, TAP_DELAY after it was scheduled
Timeout ==
    /\ pc = "game"
    /\ timers # <<>>
    /\ LET t == Head(timers)
           o == revealedCell(heap[t.board], t.revealedCount, t.row, t.col)
       IN  IF ClickCountOf(t) < 2 /\ o.mutated
           THEN /\ board' = t.board
                /\ timers' = Freeze(Tail(timers), clickCount)
                /\ heap' = Collect([heap EXCEPT ![t.board] = o.board], board', timers')
                /\ revealedCount' = revealedCount + o.revealed
                /\ flagCount' = flagCount + o.flagged
                /\ isGameStart' = TRUE
                /\ isGameOver' = (isGameOver \/ o.over)
                /\ isGameWon' = (isGameWon \/ o.won)
                /\ clickCount' = 0
           ELSE /\ timers' = Tail(timers)
                /\ heap' = Collect(heap, board, timers')
                /\ clickCount' = IF t.live THEN 0 ELSE clickCount
                /\ UNCHANGED <<board, flagCount, revealedCount, isGameStart,
                               isGameOver, isGameWon>>
    /\ UNCHANGED <<GRID_SIZE, NUM_MINES, genVars, pc>>

\* onContextMenu of a cell
HandleDesktopRightClick(row, col) ==
    /\ pc = "game"
    /\ Idle
    /\ ToggleFlag(row, col, clickCount)
    /\ UNCHANGED <<GRID_SIZE, NUM_MINES, genVars, pc>>

\* handleFaceClick without setRevealedCount(0)
HandleFaceClick_KeepsRevealedCount ==
    /\ pc = "game"
    /\ Idle
    /\ CanAllocate(timers)
    /\ flagCount' = 0
    /\ isGameStart' = FALSE
    /\ isGameOver' = FALSE
    /\ isGameWon' = FALSE
    /\ timers' = Freeze(timers, clickCount)
    /\ clickCount' = 0
    /\ board' = FreshId(timers')
    /\ \E nb \in initializeBoard :
         heap' = Collect([heap EXCEPT ![board'] = nb], board', timers')
    /\ UNCHANGED <<GRID_SIZE, NUM_MINES, genVars, pc, revealedCount>>

\* onClick of the face button
HandleFaceClick ==
    /\ pc = "game"
    /\ Idle
    /\ CanAllocate(timers)
    /\ flagCount' = 0
    /\ revealedCount' = 0
    /\ isGameStart' = FALSE
    /\ isGameOver' = FALSE
    /\ isGameWon' = FALSE
    /\ timers' = Freeze(timers, clickCount)
    /\ clickCount' = 0
    /\ board' = FreshId(timers')
    /\ \E nb \in initializeBoard :
         heap' = Collect([heap EXCEPT ![board'] = nb], board', timers')
    /\ UNCHANGED <<GRID_SIZE, NUM_MINES, genVars, pc>>

\* the configurations of the explored game sessions
GameConfigs ==
    {cfg \in [row : 1..MaxRow, col : 1..MaxCol, mines : 0..MaxMines] :
        cfg.mines < cfg.row * cfg.col /\ cfg.row * cfg.col <= MaxCells}

Init ==
    /\ \E cfg \in GameConfigs :
         /\ GRID_SIZE = [row |-> cfg.row, col |-> cfg.col]
         /\ NUM_MINES = cfg.mines
    /\ board = 1
    /\ \E nb \in initializeBoard :
         heap = [i \in BoardIds |-> IF i = 1 THEN nb ELSE NoBoard]
    /\ flagCount = 0
    /\ revealedCount = 0
    /\ isGameStart = FALSE
    /\ isGameOver = FALSE
    /\ isGameWon = FALSE
    /\ clickCount = 0
    /\ timers = <<>>
    /\ genBoard = NoBoard
    /\ minesPlaced = 0
    /\ pc = "game"

Next ==
    \/ \E p \in Cells : HandleClick(p.row, p.col)
    \/ Timeout
    \/ \E p \in Cells : HandleDesktopRightClick(p.row, p.col)
    \/ HandleFaceClick

Spec == Init /\ [][Next]_vars

-----------------------------------------------------------------------------
(* Board generation step by step: the mount effect's initializeBoard() *)

\* the configurations of the board generation runs
GenConfigs ==
    {cfg \in [row : 1..GenMaxRow, col : 1..GenMaxCol,
              mines : 0..(GenMaxRow * GenMaxCol - 1)] :
        cfg.mines < cfg.row * cfg.col}

\* useState initial values, newBoard allocated, setMines entered, for the
\* constants of one of the given configurations
GenInitIn(configs) ==
    /\ \E cfg \in configs :
         /\ GRID_SIZE = [row |-> cfg.row, col |-> cfg.col]
         /\ NUM_MINES = cfg.mines
    /\ board = 1
    /\ heap = [i \in BoardIds |-> NoBoard]
    /\ flagCount = 0
    /\ revealedCount = 0
    /\ isGameStart = FALSE
    /\ isGameOver = FALSE
    /\ isGameWon = FALSE
    /\ clickCount = 0
    /\ timers = <<>>
    /\ genBoard = EmptyBoard
    /\ minesPlaced = 0
    /\ pc = "setMines"

GenInit == GenInitIn(GenConfigs)

\* one iteration of the while loop of setMines
SetMinesStep ==
    /\ pc = "setMines"
    /\ minesPlaced < NUM_MINES
    /\ \E randomRow \in 0..(GRID_SIZE.row - 1), randomCol \in 0..(GRID_SIZE.col - 1) :
         IF ~genBoard[Pos(randomRow, randomCol)].isMine
         THEN /\ genBoard' = [genBoard EXCEPT ![Pos(randomRow, randomCol)].isMine = TRUE]
              /\ minesPlaced' = minesPlaced + 1
         ELSE UNCHANGED <<genBoard, minesPlaced>>
    /\ UNCHANGED <<GRID_SIZE, NUM_MINES, gameVars, pc>>

\* the loop of setMines ends; adjacentMines and surroundingCells are filled in
FillStep ==
    /\ pc = "setMines"
    /\ ~(minesPlaced < NUM_MINES)
    /\ genBoard' = FillBoard(genBoard)
    /\ pc' = "setBoard"
    /\ UNCHANGED <<GRID_SIZE, NUM_MINES, gameVars, minesPlaced>>

\* setBoard(newBoard) and the render that follows
SetBoardStep ==
    /\ pc = "setBoard"
    /\ heap' = [heap EXCEPT ![board] = genBoard]
    /\ genBoard' = NoBoard
    /\ minesPlaced' = 0
    /\ pc' = "game"
    /\ UNCHANGED <<GRID_SIZE, NUM_MINES, board, flagCount, revealedCount, isGameStart,
                   isGameOver, isGameWon, clickCount, timers>>

GenNext == SetMinesStep \/ FillStep \/ SetBoardStep

GenSpec == GenInit /\ [][GenNext]_vars

\* constants outside 0 <= NUM_MINES < rows * cols: nothing in constants.ts or
\* in initializeBoard tests them
InvalidConfigs ==
    {cfg \in [row : 1..GenMaxRow, col : 1..GenMaxCol,
              mines : (-1)..(GenMaxRow * GenMaxCol + 1)] :
        cfg.mines < 0 \/ cfg.mines >= cfg.row * cfg.col}

\* the board generation run with such constants
InvalidGenSpec == GenInitIn(InvalidConfigs) /\ [][GenNext]_vars

\* the step-by-step generation ends in the boards the handlers' atomic
\* initializeBoard draws from
GenEndsInInitializeBoard == pc = "game" => Displayed \in initializeBoard

-----------------------------------------------------------------------------
(* Vocabulary of the properties *)

\* the callback that is due
Due == Head(timers)

\* the cell the due callback would reveal, in the board of its closure
Target == Pos(Due.row, Due.col)

DueBoard == heap[Due.board]

\* the due callback calls revealedCell and revealedCell passes its early return
RevealRuns ==
    /\ pc = "game"
    /\ timers # <<>>
    /\ ClickCountOf(Due) < 2
    /\ ~DueBoard[Target].isRevealed
    /\ ~DueBoard[Target].isFlagged

\* a step in which a cell is revealed
RevealStep == RevealRuns /\ Timeout

AllSafeRevealed(b) == \A q \in DOMAIN b : ~b[q].isMine => b[q].isRevealed

AllRevealed(b) == \A q \in DOMAIN b : b[q].isRevealed

Revealed(b) == {q \in DOMAIN b : b[q].isRevealed}

Flagged(b) == {q \in DOMAIN b : b[q].isFlagged}

Mines(b) == {q \in DOMAIN b : b[q].isMine}

\* two different cells that touch, diagonals included
Adjacent(p, q) ==
    /\ p # q
    /\ p.row - q.row \in {-1, 0, 1}
    /\ p.col - q.col \in {-1, 0, 1}

\* b has numMines mines, and adjacentMines of every cell that is not a mine
\* is the number of mines among the cells that touch it
CountsRight(b, numMines) ==
    /\ Cardinality(Mines(b)) = numMines
    /\ \A p \in DOMAIN b :
         ~b[p].isMine =>
            b[p].adjacentMines = Cardinality({q \in Mines(b) : Adjacent(p, q)})

\* what the session shows: the cells of the displayed board and the counters
Session == <<Displayed, flagCount, revealedCount, isGameStart, isGameOver, isGameWon>>

-----------------------------------------------------------------------------
(* C1 *)

\* C1: a reveal that does not hit a mine and leaves every non-mine cell of the
\* displayed board revealed leaves isGameWon true, whether the clicked cell or
\* the flood fill revealed the last one.
C1_CompletingRevealWins ==
    [][(RevealStep /\ ~DueBoard[Target].isMine /\ AllSafeRevealed(Displayed'))
          => isGameWon']_vars

-----------------------------------------------------------------------------
(* C2 *)

\* C2: isGameOver and isGameWon are never both true.
C2_LostAndWonExclusive == ~(isGameOver /\ isGameWon)

-----------------------------------------------------------------------------
(* C3 *)

\* C3: once isGameOver or isGameWon is true, every step that is not a restart
\* leaves the displayed cells, flagCount, revealedCount and the three flags
\* as they were.
C3_TerminalSessionFrozen ==
    [][((isGameOver \/ isGameWon) /\ pc = "game" /\ ~HandleFaceClick)
          => Session' = Session]_vars

-----------------------------------------------------------------------------
(* C4 *)

\* C4: revealing an unrevealed, unflagged mine cell sets isGameOver and leaves
\* every cell of the displayed board revealed.
C4_MineRevealLosesAndRevealsAll ==
    [][(RevealStep /\ DueBoard[Target].isMine)
          => (isGameOver' /\ AllRevealed(Displayed'))]_vars

\* a lost session whose board is all revealed and holds a cell that was
\* flagged before the mine was hit
C4_Witness ==
    /\ pc = "game"
    /\ isGameOver
    /\ ~isGameWon
    /\ AllRevealed(Displayed)
    /\ Flagged(Displayed) # {}
    /\ Cardinality(Cells) > RaceCells

-----------------------------------------------------------------------------
(* C5 *)

\* C5: in the state right after isGameWon goes from false to true, every cell
\* of the displayed board that is not revealed is flagged.
C5_WinFlagsTheRest ==
    [][(~isGameWon /\ isGameWon')
          => \A q \in Cells : ~Displayed'[q].isRevealed => Displayed'[q].isFlagged]_vars

-----------------------------------------------------------------------------
(* C6 *)

\* the reveal of the due callback is that of a zero cell and does not
\* complete the board
ZeroRevealStep ==
    /\ RevealStep
    /\ ~DueBoard[Target].isMine
    /\ DueBoard[Target].adjacentMines = 0
    /\ ~AllSafeRevealed(Displayed')

\* the cells reached from the cells of R by stepping from a cell of R that has
\* no adjacent mine and is in through to a neighbour that is in into
RECURSIVE Reach(_, _, _, _)
Reach(b, R, through, into) ==
    LET more == {q \in into :
                    \E z \in R \cap through : b[z].adjacentMines = 0 /\ Adjacent(z, q)}
    IN  IF more \subseteq R THEN R ELSE Reach(b, R \cup more, through, into)

\* stepping through every zero cell that is revealed once the operation is
\* over, into every cell that is not flagged
RegionOf(before, after, p) ==
    Reach(before, {p}, Revealed(after), DOMAIN before \ Flagged(before))

\* stepping through the zero cells this operation reveals, into the cells
\* that were neither revealed nor flagged
FreshRegionOf(before, p) ==
    Reach(before, {p}, DOMAIN before \ Revealed(before),
          DOMAIN before \ (Revealed(before) \cup Flagged(before)))

DueTakesWinBranch ==
    Due.revealedCount = GRID_SIZE.row * GRID_SIZE.col - NUM_MINES - 1

-----------------------------------------------------------------------------
(* C7 *)

\* a callback is pending that a press on cell p of the displayed board
\* scheduled and that no second press has been counted against
PendingRevealOf(p) ==
    \E k \in DOMAIN timers :
        /\ timers[k].row = p.row
        /\ timers[k].col = p.col
        /\ timers[k].board = board
        /\ ClickCountOf(timers[k]) < 2

\* C7: a primary press on an unrevealed, unflagged cell whose earlier press is
\* still waiting for its delay leaves the cell flagged and not revealed.
C7_SecondPressFlags ==
    [][\A p \in Cells :
          (/\ pc = "game"
           /\ PendingRevealOf(p)
           /\ ~Displayed[p].isRevealed
           /\ ~Displayed[p].isFlagged
           /\ HandleClick(p.row, p.col))
          => (Displayed'[p].isFlagged /\ ~Displayed'[p].isRevealed)]_vars

-----------------------------------------------------------------------------
(* C8 *)

\* C8: a restart leaves flagCount = 0, revealedCount = 0, the three flags
\* false, and displays a board of the configured grid with NUM_MINES mines
\* and the adjacency counts of a generated board, that no pending callback
\* refers to and in which no cell is revealed or flagged.
C8_RestartIsFresh ==
    [][HandleFaceClick =>
          /\ flagCount' = 0
          /\ revealedCount' = 0
          /\ ~isGameStart' /\ ~isGameOver' /\ ~isGameWon'
          /\ DOMAIN Displayed' = Cells
          /\ CountsRight(Displayed', NUM_MINES)
          /\ Revealed(Displayed') = {} /\ Flagged(Displayed') = {}
          /\ \A k \in DOMAIN timers' : timers'[k].board # board']_vars

\* a fresh session next to the board of an earlier one, which a pending
\* callback still holds with cells revealed in it
C8_Witness ==
    /\ pc = "game"
    /\ flagCount = 0 /\ revealedCount = 0
    /\ ~isGameStart /\ ~isGameOver /\ ~isGameWon
    /\ Revealed(Displayed) = {} /\ Flagged(Displayed) = {}
    /\ \E k \in DOMAIN timers :
         /\ timers[k].board # board
         /\ Revealed(heap[timers[k].board]) # {}

-----------------------------------------------------------------------------
(* C9 *)

\* C9: a callback scheduled on a board that is no longer the displayed one
\* changes nothing of the session: not the displayed board, not the counters,
\* not the flags.
C9_StaleCallbackInert ==
    [][(pc = "game" /\ timers # <<>> /\ Due.board # board /\ Timeout)
          => (board' = board /\ Session' = Session)]_vars

-----------------------------------------------------------------------------
(* C10 *)

\* C10: a generated board has exactly NUM_MINES mines, and adjacentMines of
\* every cell that is not a mine is the number of mines among the cells
\* that touch it.
C10_GeneratedBoardCounts ==
    pc = "game" => (DOMAIN Displayed = Cells /\ CountsRight(Displayed, NUM_MINES))

\* a generated 3 x 3 board with mines on both sides of a cell that counts them
C10_Witness ==
    /\ pc = "game"
    /\ NUM_MINES >= 2
    /\ \E p, q1, q2 \in Cells :
         /\ ~Displayed[p].isMine /\ Displayed[p].adjacentMines >= 2
         /\ Displayed[q1].isMine /\ Displayed[q2].isMine
         /\ Adjacent(p, q1) /\ Adjacent(p, q2)
         /\ q1.col < p.col /\ q2.col > p.col

-----------------------------------------------------------------------------
(* C11 *)

\* C11: surroundingCells of every cell of a generated board holds in-bounds
\* positions only, at most 8 of them, and not the position of the cell itself.
C11_NeighborListExcludesSelf ==
    pc = "game" =>
        \A p \in Cells :
            LET s == Displayed[p].surroundingCells
            IN  /\ \A k \in DOMAIN s : InBounds(s[k].row, s[k].col) /\ s[k] # p
                /\ Len(s) <= 8

-----------------------------------------------------------------------------
(* C12 *)

\* the step is a call of flagToggleSet(p) by a handler of the latest render:
\* a secondary click, or the second press of a double press
TogglesFlag(p) ==
    \/ HandleDesktopRightClick(p.row, p.col)
    \/ (clickCount + 1 >= 2 /\ HandleClick(p.row, p.col))

\* C12: a flag toggle of an unrevealed cell flips its isFlagged, and the
\* toggle of the same cell that the render after it would run puts isFlagged
\* back to what it was before the first one, leaves every other cell as it
\* was, and brings flagCount back to its value before the two toggles.
C12_ToggleTwiceRestores ==
    [][\A p \in Cells :
          (pc = "game" /\ ~Displayed[p].isRevealed /\ TogglesFlag(p))
          => LET again == flagToggleSet(Displayed', revealedCount', p.row, p.col)
             IN  /\ Displayed'[p].isFlagged # Displayed[p].isFlagged
                 /\ again.mutated
                 /\ again.board[p].isFlagged = Displayed[p].isFlagged
                 /\ \A q \in Cells \ {p} : again.board[q] = Displayed[q]
                 /\ flagCount' + again.flagged = flagCount]_vars

\* a one-cell session that has started and in which the cell is neither
\* revealed nor flagged: the cell was flagged and unflagged again
C12_Witness ==
    /\ pc = "game"
    /\ Cardinality(Cells) = 1
    /\ isGameStart
    /\ timers = <<>>
    /\ Revealed(Displayed) = {}
    /\ Flagged(Displayed) = {}
    /\ flagCount = 0
    /\ revealedCount = 0

-----------------------------------------------------------------------------
(* C13 *)

\* C13: flagCount is at least 0 and at most rows * cols in every reachable
\* state.
C13_FlagCountInRange ==
    /\ flagCount >= 0
    /\ flagCount <= GRID_SIZE.row * GRID_SIZE.col

-----------------------------------------------------------------------------
(* C14 *)

\* the due callback calls revealedCell for a cell that is revealed or flagged
\* in the board of its closure
RevealOutOfPolicy ==
    /\ timers # <<>>
    /\ ClickCountOf(Due) < 2
    /\ (DueBoard[Target].isRevealed \/ DueBoard[Target].isFlagged)
    /\ Timeout

\* flagToggleSet is called for a cell that is revealed
ToggleOutOfPolicy == \E p \in Cells : Displayed[p].isRevealed /\ TogglesFlag(p)

\* C14: a reveal of a cell that is revealed or flagged and a flag toggle of a
\* cell that is revealed change no cell of any board, display the same board,
\* and leave flagCount, revealedCount, isGameStart, isGameOver and isGameWon
\* as they were.
C14_OutOfPolicyIsNoOp ==
    [][(pc = "game" /\ (RevealOutOfPolicy \/ ToggleOutOfPolicy))
          => /\ board' = board
             /\ Session' = Session
             /\ \A i \in BoardIds : heap'[i] # NoBoard => heap'[i] = heap[i]]_vars

\* the second press of a double press has called flagToggleSet for a revealed
\* cell: nothing was set, no render followed, and clickCount is still 2
C14_Witness ==
    /\ pc = "game"
    /\ clickCount = 2
    /\ timers # <<>>
    /\ Revealed(Displayed) # {}

-----------------------------------------------------------------------------
(* C15 *)

\* C15: with NUM_MINES outside 0 .. rows * cols - 1 the generation stops
\* before a mine is placed, and no board is displayed.
C15_InvalidMineCountRejected ==
    (NUM_MINES < 0 \/ NUM_MINES >= GRID_SIZE.row * GRID_SIZE.col)
        => /\ pc = "setMines"
           /\ minesPlaced = 0
           /\ genBoard = EmptyBoard

-----------------------------------------------------------------------------
(* C16 *)

\* C16: a flag toggle of an unrevealed cell in a session that is not won sets
\* isGameWon when every non-mine cell of the displayed board is revealed, and
\* leaves it false when some non-mine cell is still hidden.
C16_ToggleWinsIffAllSafeRevealed ==
    [][\A p \in Cells :
          (pc = "game" /\ ~isGameWon /\ ~Displayed[p].isRevealed /\ TogglesFlag(p))
          => (isGameWon' <=> AllSafeRevealed(Displayed))]_vars

-----------------------------------------------------------------------------
(* C17 *)

\* C17: revealedCount is between 0 and rows * cols - NUM_MINES in every
\* reachable state.
C17_RevealedCountInRange ==
    /\ revealedCount >= 0
    /\ revealedCount <= GRID_SIZE.row * GRID_SIZE.col - NUM_MINES

-----------------------------------------------------------------------------
(* C18 *)

\* the callback that is due is the only one pending and no second press was
\* counted against it: no primary press followed the press that scheduled it
SinglePressDue ==
    /\ pc = "game"
    /\ Len(timers) = 1
    /\ ClickCountOf(Due) < 2

\* C18: when the callback of a primary press that no other primary press
\* followed runs and the pressed cell is neither revealed nor flagged in the
\* board displayed then, that cell of that board is revealed, the same board
\* stays displayed, and the callback is gone.
C18_SinglePressRevealsOnce ==
    [][(/\ SinglePressDue
        /\ ~Displayed[Target].isRevealed
        /\ ~Displayed[Target].isFlagged
        /\ Timeout)
          => (/\ board' = board
              /\ Displayed'[Target].isRevealed
              /\ timers' = <<>>)]_vars

-----------------------------------------------------------------------------
(* C19 *)

\* the pending callbacks that will call revealedCell
PendingReveals == {k \in DOMAIN timers : ClickCountOf(timers[k]) < 2}

\* C19: at most one delayed reveal is pending at any time.
C19_AtMostOnePendingReveal == Cardinality(PendingReveals) <= 1

-----------------------------------------------------------------------------
(* C20 *)

\* C20: flagCount is the number of flagged cells of the displayed board, and
\* while isGameOver is false revealedCount is the number of its revealed cells.
C20_CountersMatchBoard ==
    pc = "game" =>
        /\ flagCount = Cardinality(Flagged(Displayed))
        /\ ~isGameOver => revealedCount = Cardinality(Revealed(Displayed))

=============================================================================
